---- MODULE Spec2Model ----
(***************************************************************************)
(* MovieLens scoring pipeline and mood recommendation service.             *)
(*                                                                         *)
(*   Scripts/build_db.py  clean_ratings -> build_movie_stats ->            *)
(*                        bayesian_weighted -> merge -> sqlite tables      *)
(*   Scripts/check_db.py  opens the database and lists its tables          *)
(*   app/main.py          get_conn, /titles, /recommendations              *)
(*                                                                         *)
(* Values.  A field that may be missing (NaN / None / SQL NULL) is a       *)
(* sequence of length 0 (missing) or 1 (present).  A rating r of the       *)
(* half-star scale is the integer 2r.  A text is a sequence of one-        *)
(* character strings.  A float64 is a pair (m, e) standing for m * 2^e,    *)
(* m an unbounded natural kept as little-endian limbs, and every float     *)
(* operation rounds to nearest, ties to even, to 53 significant bits.      *)
(***************************************************************************)
EXTENDS Integers, Sequences, FiniteSets, TLC

VARIABLES
    dataDir,    \* DATA_DIR exists
    db,         \* the file DB_PATH: whether it exists, and its two tables
    pc,         \* position of the batch run inside build_db.main
    input,      \* the files the current (or last) batch run reads
    merged,     \* main's local `merged`
    before,     \* db as it was when the current (or last) batch run started
    outcome,    \* how the last batch run ended
    built,      \* some batch run has completed
    resp,       \* the last response of the service or of a pure operation
    arg         \* the arguments of that operation, and the store it read

vars == <<dataDir, db, pc, input, merged, before, outcome, built, resp, arg>>

(***************************************************************************)
(* Missing values                                                          *)
(***************************************************************************)
None == <<>>
Some(v) == <<v>>
IsNull(x) == x = <<>>
Val(x) == x[1]

Min(a, b) == IF a <= b THEN a ELSE b
Max(a, b) == IF a >= b THEN a ELSE b

(***************************************************************************)
(* Unbounded naturals: little-endian limbs, no leading zero limb           *)
(***************************************************************************)
Base == 2^15

RECURSIVE FromNat(_)
FromNat(n) == IF n = 0 THEN <<>> ELSE <<n % Base>> \o FromNat(n \div Base)

Limb(a, i) == IF i <= Len(a) THEN a[i] ELSE 0

RECURSIVE Trim(_)
Trim(a) ==
    IF a = <<>> THEN <<>>
    ELSE IF a[Len(a)] = 0 THEN Trim(SubSeq(a, 1, Len(a) - 1))
    ELSE a

RECURSIVE AddFrom(_, _, _, _)
AddFrom(a, b, i, c) ==
    IF i > Len(a) /\ i > Len(b)
    THEN (IF c = 0 THEN <<>> ELSE <<c>>)
    ELSE LET s == Limb(a, i) + Limb(b, i) + c
         IN  <<s % Base>> \o AddFrom(a, b, i + 1, s \div Base)

BAdd(a, b) == AddFrom(a, b, 1, 0)

RECURSIVE MulFrom(_, _, _, _)
MulFrom(a, k, i, c) ==
    IF i > Len(a)
    THEN (IF c = 0 THEN <<>> ELSE <<c>>)
    ELSE LET s == a[i] * k + c
         IN  <<s % Base>> \o MulFrom(a, k, i + 1, s \div Base)

\* a * k for 0 <= k < Base
BMulSmall(a, k) == IF k = 0 THEN <<>> ELSE MulFrom(a, k, 1, 0)

ShlLimbs(a, n) == IF a = <<>> THEN <<>> ELSE [i \in 1..n |-> 0] \o a

RECURSIVE MulAcc(_, _, _)
MulAcc(a, b, i) ==
    IF i > Len(b) THEN <<>>
    ELSE BAdd(ShlLimbs(BMulSmall(a, b[i]), i - 1), MulAcc(a, b, i + 1))

BMul(a, b) == MulAcc(a, b, 1)

RECURSIVE CmpFrom(_, _, _)
CmpFrom(a, b, i) ==
    IF i = 0 THEN 0
    ELSE IF a[i] < b[i] THEN -1
    ELSE IF a[i] > b[i] THEN 1
    ELSE CmpFrom(a, b, i - 1)

\* -1, 0, 1 as a < b, a = b, a > b
BCmp(a, b) ==
    IF Len(a) < Len(b) THEN -1
    ELSE IF Len(a) > Len(b) THEN 1
    ELSE CmpFrom(a, b, Len(a))

RECURSIVE DivFrom(_, _, _, _)
DivFrom(a, d, i, r) ==
    IF i = 0 THEN [q |-> <<>>, r |-> r]
    ELSE LET cur  == r * Base + a[i]
             rest == DivFrom(a, d, i - 1, cur % d)
         IN  [q |-> Append(rest.q, cur \div d), r |-> rest.r]

\* quotient and remainder of a by d, 0 < d < Base
BDivSmall(a, d) ==
    LET x == DivFrom(a, d, Len(a), 0) IN [q |-> Trim(x.q), r |-> x.r]

RECURSIVE Bits(_)
Bits(n) == IF n = 0 THEN 0 ELSE 1 + Bits(n \div 2)

BitLen(a) == IF a = <<>> THEN 0 ELSE 15 * (Len(a) - 1) + Bits(a[Len(a)])

Shl(a, s) == ShlLimbs(BMulSmall(a, 2^(s % 15)), s \div 15)

\* floor(a / 2^s)
Shr(a, s) ==
    LET k == s \div 15
    IN  IF k >= Len(a) THEN <<>>
        ELSE BDivSmall(SubSeq(a, k + 1, Len(a)), 2^(s % 15)).q

Odd(a) == a # <<>> /\ a[1] % 2 = 1

(***************************************************************************)
(* float64 arithmetic                                                      *)
(***************************************************************************)
Zero == [m |-> <<>>, e |-> 0]
\* NaN is the one pair that is no number: mantissa 0 with exponent 1
NaN == [m |-> <<>>, e |-> 1]
IsNaN(x) == x = NaN

\* The float64 nearest to (m + d) * 2^e, with 0 < d < 1 when sticky and
\* d = 0 otherwise; ties go to the even mantissa.
Round(m, e, sticky) ==
    LET L == BitLen(m)
    IN  IF L = 0 THEN Zero
        ELSE IF L <= 53 THEN [m |-> Shl(m, 53 - L), e |-> e - (53 - L)]
        ELSE LET s    == L - 53
                 q2   == Shr(m, s - 1)
                 q    == Shr(q2, 1)
                 low  == sticky \/ Shl(q2, s - 1) # m
                 up   == Odd(q2) /\ (low \/ Odd(q))
                 q1   == IF up THEN BAdd(q, <<1>>) ELSE q
             IN  IF BitLen(q1) > 53
                 THEN [m |-> Shr(q1, 1), e |-> e + s + 1]
                 ELSE [m |-> q1, e |-> e + s]

FFromInt(n) == Round(FromNat(n), 0, FALSE)
\* the float of a half-star rating kept as the integer 2r
FFromHalves(h) == Round(FromNat(h), -1, FALSE)

FMul(x, y) == Round(BMul(x.m, y.m), x.e + y.e, FALSE)

FAdd(x, y) ==
    LET lo == Min(x.e, y.e)
    IN  Round(BAdd(Shl(x.m, x.e - lo), Shl(y.m, y.e - lo)), lo, FALSE)

\* x / d for an integer 0 < d < Base
FDivInt(x, d) ==
    LET qr == BDivSmall(Shl(x.m, 45), d)
    IN  Round(qr.q, x.e - 45, qr.r # 0)

\* -1, 0, 1 as x < y, x = y, x > y (x, y >= 0, neither NaN)
FCmp(x, y) ==
    LET lo == Min(x.e, y.e)
    IN  BCmp(Shl(x.m, x.e - lo), Shl(y.m, y.e - lo))

FLeq(x, y) == FCmp(x, y) <= 0

(***************************************************************************)
(* Sequences                                                               *)
(***************************************************************************)
Range(s) == {s[i] : i \in 1..Len(s)}

RECURSIVE SeqsUpTo(_, _)
\* every sequence over S of length at most n
SeqsUpTo(S, n) ==
    IF n = 0 THEN {<<>>}
    ELSE LET shorter == SeqsUpTo(S, n - 1)
         IN  shorter \cup {Append(s, x) : s \in {t \in shorter : Len(t) = n - 1}, x \in S}

\* the rows of s at the positions in keep, in order
Pick(s, keep) ==
    [k \in 1..Cardinality(keep) |->
        s[CHOOSE i \in keep : Cardinality({j \in keep : j < i}) = k - 1]]

RECURSIVE SortedIds(_)
\* the integers of S in ascending order
SortedIds(S) ==
    IF S = {} THEN <<>>
    ELSE LET lo == CHOOSE x \in S : \A y \in S : x <= y
         IN  <<lo>> \o SortedIds(S \ {lo})

RECURSIVE SumHalves(_)
SumHalves(s) == IF s = <<>> THEN 0 ELSE Val(Head(s).rating) + SumHalves(Tail(s))

RECURSIVE FSum(_)
\* left-to-right float sum, one rounding per addition
FSum(s) == IF s = <<>> THEN Zero ELSE FAdd(FSum(SubSeq(s, 1, Len(s) - 1)), s[Len(s)])

(***************************************************************************)
(* Scripts/build_db.py: the scoring pipeline                               *)
(***************************************************************************)
\* DataFrame.dropna(how="all")
DropAllNull(ratings) ==
    SelectSeq(ratings, LAMBDA r :
        ~(IsNull(r.userId) /\ IsNull(r.movieId) /\ IsNull(r.rating) /\ IsNull(r.timestamp)))

\* DataFrame.drop_duplicates(): the first of equal rows is kept
DropDuplicates(ratings) ==
    Pick(ratings, {i \in 1..Len(ratings) : \A j \in 1..(i - 1) : ratings[j] # ratings[i]})

\* DataFrame.dropna(subset=["userId", "movieId", "rating"])
DropMissingKeys(ratings) ==
    SelectSeq(ratings, LAMBDA r :
        ~IsNull(r.userId) /\ ~IsNull(r.movieId) /\ ~IsNull(r.rating))

\* 0.5 <= rating <= 5.0 on the half-star scale; a missing rating compares false
RatingInRange(r) == ~IsNull(r.rating) /\ Val(r.rating) >= 1 /\ Val(r.rating) <= 10

\* the range mask taken from the frame before the drops and applied by position
clean_ratings_stale_mask(ratings) ==
    LET kept == DropMissingKeys(DropDuplicates(DropAllNull(ratings)))
    IN  Pick(kept, {i \in 1..Len(kept) : RatingInRange(ratings[i])})

clean_ratings(ratings) ==
    SelectSeq(DropMissingKeys(DropDuplicates(DropAllNull(ratings))), RatingInRange)

\* groupby("movieId")["rating"].agg(count, mean).reset_index(): one row per movieId
\* in ascending order; rows without a movieId form no group; count and mean skip
\* missing ratings, and the mean of no rating is NaN
build_movie_stats(ratings) ==
    LET ids == SortedIds({Val(ratings[i].movieId) :
                            i \in {j \in 1..Len(ratings) : ~IsNull(ratings[j].movieId)}})
        grp(id) == SelectSeq(ratings, LAMBDA r :
                        ~IsNull(r.movieId) /\ Val(r.movieId) = id /\ ~IsNull(r.rating))
    IN  [k \in 1..Len(ids) |->
            [movieId      |-> ids[k],
             rating_count |-> Len(grp(ids[k])),
             avg_rating   |-> IF grp(ids[k]) = <<>> THEN NaN
                              ELSE FDivInt(FFromHalves(SumHalves(grp(ids[k]))),
                                           Len(grp(ids[k])))]]

\* Series.mean(): NaN entries are skipped, the mean of nothing is NaN
SeriesMean(xs) ==
    LET present == SelectSeq(xs, LAMBDA x : ~IsNaN(x))
    IN  IF present = <<>> THEN NaN ELSE FDivInt(FSum(present), Len(present))

\* (count / (count + m)) * avg + (m / (count + m)) * C
Weighted(count, avg, C, m) ==
    IF IsNaN(avg) \/ IsNaN(C) THEN NaN
    ELSE FAdd(FMul(FDivInt(FFromInt(count), count + m), avg),
              FMul(FDivInt(FFromInt(m), count + m), C))

GlobalMean(movie_stats) ==
    SeriesMean([k \in 1..Len(movie_stats) |-> movie_stats[k].avg_rating])

\* the first weight divided by m instead of count + m
bayesian_weighted_wrong_weight(movie_stats, m) ==
    LET C == GlobalMean(movie_stats)
    IN  [k \in 1..Len(movie_stats) |->
            [movieId         |-> movie_stats[k].movieId,
             rating_count    |-> movie_stats[k].rating_count,
             avg_rating      |-> movie_stats[k].avg_rating,
             weighted_rating |->
                IF IsNaN(movie_stats[k].avg_rating) \/ IsNaN(C) THEN NaN
                ELSE FAdd(FMul(FDivInt(FFromInt(movie_stats[k].rating_count), m),
                               movie_stats[k].avg_rating),
                          FMul(FDivInt(FFromInt(m), movie_stats[k].rating_count + m), C))]]

bayesian_weighted(movie_stats, m) ==
    LET C == GlobalMean(movie_stats)
    IN  [k \in 1..Len(movie_stats) |->
            [movieId         |-> movie_stats[k].movieId,
             rating_count    |-> movie_stats[k].rating_count,
             avg_rating      |-> movie_stats[k].avg_rating,
             weighted_rating |-> Weighted(movie_stats[k].rating_count,
                                          movie_stats[k].avg_rating, C, m)]]

(***************************************************************************)
(* Bounds and input domains                                                *)
(***************************************************************************)
\* longest raw ratings frame handed to clean_ratings
MaxLen == 3
\* most movies in a MovieStats input handed to bayesian_weighted
MaxMovies == 2
\* most ratings behind one MovieStats row
MaxCount == 3
\* bayesian_weighted's default shrinkage strength
DefaultM == 1000

Rating(u, mv, h, t) == [userId |-> u, movieId |-> mv, rating |-> h, timestamp |-> t]

\* raw rows: empty, complete, without timestamp, without a key, out of range
RawRows ==
    { Rating(None, None, None, None),
      Rating(Some(1), Some(1), Some(10), Some(7)),
      Rating(Some(2), Some(1), Some(5), None),
      Rating(Some(1), Some(2), Some(1), Some(7)),
      Rating(None, Some(1), Some(8), Some(7)),
      Rating(Some(1), None, Some(8), Some(7)),
      Rating(Some(1), Some(1), None, Some(7)),
      Rating(Some(2), Some(2), Some(0), Some(7)),
      Rating(Some(2), Some(2), Some(11), None) }

\* the star values (as halves) behind the averages of a MovieStats input
StarHalves == {5, 10}

RECURSIVE SumsOf(_)
\* the sums n values of StarHalves can have
SumsOf(n) == IF n = 0 THEN {0} ELSE {s + h : s \in SumsOf(n - 1), h \in StarHalves}

\* MovieStats rows: count n >= 1 with the mean of n ratings, and count 0 with
\* any average of the rating scale
StatsRows ==
    UNION {{[rating_count |-> n, avg_rating |-> FDivInt(FFromHalves(s), n)] :
                s \in SumsOf(n)} : n \in 1..MaxCount}
    \cup {[rating_count |-> 0, avg_rating |-> FFromHalves(h)] : h \in StarHalves}

NoDb == [exists |-> FALSE, movies |-> None, movie_scores |-> None]
NoInput == [ratings |-> None, movies |-> None]
NoCall == [op |-> "none"]

\* the variables of the store and of the batch run, at rest
AtRest ==
    /\ dataDir = FALSE
    /\ db = NoDb
    /\ pc = "idle"
    /\ input = NoInput
    /\ merged = <<>>
    /\ before = NoDb
    /\ outcome = "none"
    /\ built = FALSE

(***************************************************************************)
(* clean_ratings as a pure function                                        *)
(***************************************************************************)
InitClean ==
    /\ AtRest
    /\ arg \in {[op |-> "clean", ratings |-> X] : X \in SeqsUpTo(RawRows, MaxLen)}
    /\ resp = NoCall

CleanOnce ==
    /\ arg.op = "clean"
    /\ resp.op = "none"
    /\ resp' = [op |-> "clean", passes |-> 1, prev |-> arg.ratings,
                rows |-> clean_ratings(arg.ratings)]
    /\ UNCHANGED <<dataDir, db, pc, input, merged, before, outcome, built, arg>>

CleanAgain ==
    /\ resp.op = "clean"
    /\ resp.passes = 1
    /\ resp' = [op |-> "clean", passes |-> 2, prev |-> resp.rows,
                rows |-> clean_ratings(resp.rows)]
    /\ UNCHANGED <<dataDir, db, pc, input, merged, before, outcome, built, arg>>

NextClean == CleanOnce \/ CleanAgain

SpecClean == InitClean /\ [][NextClean]_vars

\* C9: cleaning is idempotent: cleaning the cleaned frame again returns exactly
\* the rows of the first cleaning, whatever the raw frame held.
C9_CleanIdempotent ==
    (resp.op = "clean" /\ resp.passes = 2) => resp.rows = resp.prev

\* a second pass over a frame whose first pass dropped rows and kept some
C9_Witness ==
    /\ resp.op = "clean"
    /\ resp.passes = 2
    /\ resp.prev # <<>>
    /\ Len(resp.prev) < Len(arg.ratings)

(***************************************************************************)
(* bayesian_weighted as a pure function                                    *)
(***************************************************************************)
\* MovieStats frames: movieId k in row k
StatsFrames ==
    {[k \in 1..Len(f) |-> [movieId      |-> k,
                           rating_count |-> f[k].rating_count,
                           avg_rating   |-> f[k].avg_rating]] :
        f \in SeqsUpTo(StatsRows, MaxMovies)}

InitScore ==
    /\ AtRest
    /\ arg \in {[op |-> "score", movie_stats |-> f, m |-> m] :
                    f \in StatsFrames, m \in {1, DefaultM}}
    /\ resp = NoCall

Score ==
    /\ arg.op = "score"
    /\ resp.op = "none"
    /\ resp' = [op |-> "score", status |-> "ok",
                rows |-> bayesian_weighted(arg.movie_stats, arg.m)]
    /\ UNCHANGED <<dataDir, db, pc, input, merged, before, outcome, built, arg>>

NextScore == Score

SpecScore == InitScore /\ [][NextScore]_vars

FMin(x, y) == IF FLeq(x, y) THEN x ELSE y
FMax(x, y) == IF FLeq(x, y) THEN y ELSE x

\* x * num <= y * den, exactly
ScaledLeq(x, num, y, den) ==
    LET lo == Min(x.e, y.e)
    IN  BCmp(BMul(Shl(x.m, x.e - lo), FromNat(num)),
             BMul(Shl(y.m, y.e - lo), FromNat(den))) <= 0

\* C2 as stated: every weightedRating of a non-empty input lies between the
\* global mean C and the movie's avgRating, inclusive.
C2_ShrinkageBoundsExact ==
    (resp.op = "score" /\ arg.movie_stats # <<>>) =>
        \A k \in 1..Len(resp.rows) :
            LET C == GlobalMean(arg.movie_stats)
                r == resp.rows[k]
            IN  /\ FLeq(FMin(r.avg_rating, C), r.weighted_rating)
                /\ FLeq(r.weighted_rating, FMax(r.avg_rating, C))

\* C2 amended: every weightedRating of a non-empty input lies between the global
\* mean C and the movie's avgRating up to a relative error of 1e-9:
\* min(avg, C) * (1 - 1e-9) <= weightedRating <= max(avg, C) * (1 + 1e-9).
C2_ShrinkageBoundsTolerance ==
    (resp.op = "score" /\ arg.movie_stats # <<>>) =>
        \A k \in 1..Len(resp.rows) :
            LET C == GlobalMean(arg.movie_stats)
                r == resp.rows[k]
            IN  /\ ScaledLeq(FMin(r.avg_rating, C), 10^9 - 1, r.weighted_rating, 10^9)
                /\ ScaledLeq(r.weighted_rating, 10^9, FMax(r.avg_rating, C), 10^9 + 1)

\* a scored movie with at least one rating whose weightedRating is above both its
\* avgRating and C
C2_Witness ==
    /\ resp.op = "score"
    /\ \E k \in 1..Len(resp.rows) :
            /\ resp.rows[k].rating_count >= 1
            /\ ~FLeq(resp.rows[k].weighted_rating,
                     FMax(resp.rows[k].avg_rating, GlobalMean(arg.movie_stats)))

(***************************************************************************)
(* Texts                                                                   *)
(***************************************************************************)
UpperCase == <<"A", "B", "C", "D", "E", "F", "G", "H", "I", "J", "K", "L", "M",
               "N", "O", "P", "Q", "R", "S", "T", "U", "V", "W", "X", "Y", "Z">>
LowerCase == <<"a", "b", "c", "d", "e", "f", "g", "h", "i", "j", "k", "l", "m",
               "n", "o", "p", "q", "r", "s", "t", "u", "v", "w", "x", "y", "z">>

\* str.lower() on one character
LowerChar(c) ==
    IF \E i \in 1..Len(UpperCase) : UpperCase[i] = c
    THEN LowerCase[CHOOSE i \in 1..Len(UpperCase) : UpperCase[i] = c]
    ELSE c

Lower(text) == [i \in 1..Len(text) |-> LowerChar(text[i])]

IsSpace(c) == c \in {" ", "\t", "\n"}

RECURSIVE LStrip(_)
LStrip(text) ==
    IF text # <<>> /\ IsSpace(Head(text)) THEN LStrip(Tail(text)) ELSE text

RECURSIVE RStrip(_)
RStrip(text) ==
    IF text # <<>> /\ IsSpace(text[Len(text)])
    THEN RStrip(SubSeq(text, 1, Len(text) - 1))
    ELSE text

\* str.strip()
Strip(text) == RStrip(LStrip(text))

RECURSIVE LikeMatch(_, _)
\* SQLite's `text LIKE pattern` on present operands: % is any run of characters,
\* _ any one character, and ASCII letters match without regard to case
LikeMatch(text, pattern) ==
    IF pattern = <<>> THEN text = <<>>
    ELSE IF Head(pattern) = "%"
         THEN \/ LikeMatch(text, Tail(pattern))
              \/ text # <<>> /\ LikeMatch(Tail(text), pattern)
    ELSE /\ text # <<>>
         /\ Head(pattern) = "_" \/ LowerChar(Head(text)) = LowerChar(Head(pattern))
         /\ LikeMatch(Tail(text), Tail(pattern))

\* `column LIKE pattern` as a WHERE term: NULL LIKE pattern is NULL, which is not true
Like(column, pattern) == ~IsNull(column) /\ LikeMatch(Val(column), pattern)

\* pattern occurs in text, character for character
Contains(text, pattern) ==
    \E i \in 1..(Len(text) - Len(pattern) + 1) :
        SubSeq(text, i, i + Len(pattern) - 1) = pattern

calm == <<"c", "a", "l", "m">>
fun == <<"f", "u", "n">>
intense == <<"i", "n", "t", "e", "n", "s", "e">>
sad == <<"s", "a", "d">>
inspire == <<"i", "n", "s", "p", "i", "r", "e">>
Drama == <<"D", "r", "a", "m", "a">>
Romance == <<"R", "o", "m", "a", "n", "c", "e">>
Comedy == <<"C", "o", "m", "e", "d", "y">>
Action == <<"A", "c", "t", "i", "o", "n">>
Thriller == <<"T", "h", "r", "i", "l", "l", "e", "r">>
Adventure == <<"A", "d", "v", "e", "n", "t", "u", "r", "e">>
Animation == <<"A", "n", "i", "m", "a", "t", "i", "o", "n">>

(***************************************************************************)
(* app/main.py                                                             *)
(***************************************************************************)
MoodKeys == {calm, fun, intense, sad, inspire}

\* MOOD_TO_GENRES.get(mood, [])
MOOD_TO_GENRES(mood) ==
    CASE mood = calm    -> <<Drama, Romance>>
      [] mood = fun     -> <<Comedy>>
      [] mood = intense -> <<Action, Thriller>>
      [] mood = sad     -> <<Drama>>
      [] mood = inspire -> <<Adventure, Animation>>
      [] OTHER          -> <<>>

\* longest query string /titles accepts
MaxQueryLen == 80

\* one row of the SELECT ... FROM movie_scores s JOIN movies m
Entry(s, m) ==
    [movieId         |-> m.movieId,
     title           |-> m.title,
     genres          |-> m.genres,
     rating_count    |-> s.rating_count,
     avg_rating      |-> s.avg_rating,
     weighted_rating |-> s.weighted_rating]

\* WHERE s.rating_count > ?: the threshold itself excluded
Where_strict(s, m, genres, min_count) ==
    /\ m.movieId = s.movieId
    /\ s.rating_count > min_count
    /\ genres = <<>> \/ \E i \in 1..Len(genres) : Like(m.genres, <<"%">> \o genres[i] \o <<"%">>)

\* ON m.movieId = s.movieId WHERE s.rating_count >= ? [AND (m.genres LIKE ? OR ...)]
Where(s, m, genres, min_count) ==
    /\ m.movieId = s.movieId
    /\ s.rating_count >= min_count
    /\ genres = <<>> \/ \E i \in 1..Len(genres) : Like(m.genres, <<"%">> \o genres[i] \o <<"%">>)

RECURSIVE OrderByLimit(_, _, _, _)
\* ORDER BY s.weighted_rating DESC LIMIT ?: the orders the rows `pairs` (index
\* pairs into the two tables) can come out in, equal keys in any order; a
\* negative limit is no limit
OrderByLimit(scores, movies, pairs, limit) ==
    IF pairs = {} \/ limit = 0 THEN {<<>>}
    ELSE LET top == {x \in pairs : \A y \in pairs :
                        FLeq(scores[y[1]].weighted_rating, scores[x[1]].weighted_rating)}
         IN  UNION {{<<Entry(scores[x[1]], movies[x[2]])>> \o rest :
                        rest \in OrderByLimit(scores, movies, pairs \ {x}, limit - 1)} :
                    x \in top}

\* GET /recommendations: the responses the handler can give on `store`
recommendations(store, mood, k, min_count) ==
    LET mood1  == Strip(Lower(mood))
        genres == MOOD_TO_GENRES(mood1)
    IN  IF ~store.exists
        THEN {[op |-> "recommendations", status |-> "FileNotFoundError"]}
        ELSE IF IsNull(store.movies) \/ IsNull(store.movie_scores)
        THEN {[op |-> "recommendations", status |-> "OperationalError"]}
        ELSE LET scores == Val(store.movie_scores)
                 movies == Val(store.movies)
                 pairs  == {x \in (1..Len(scores)) \X (1..Len(movies)) :
                                Where(scores[x[1]], movies[x[2]], genres, min_count)}
             IN  {[op            |-> "recommendations",
                   status        |-> "ok",
                   mood          |-> mood1,
                   genres_filter |-> genres,
                   k             |-> k,
                   min_count     |-> min_count,
                   items         |-> items] :
                    items \in OrderByLimit(scores, movies, pairs, k)}

RECURSIVE Limit(_, _)
\* LIMIT ? on rows in table order; a negative limit is no limit
Limit(rows, limit) ==
    IF rows = <<>> \/ limit = 0 THEN <<>>
    ELSE <<Head(rows)>> \o Limit(Tail(rows), limit - 1)

\* GET /titles
titles(store, query, limit) ==
    IF Len(query) > MaxQueryLen
    THEN [op |-> "titles", status |-> "RequestValidationError"]
    ELSE IF ~store.exists
    THEN [op |-> "titles", status |-> "FileNotFoundError"]
    ELSE IF IsNull(store.movies)
    THEN [op |-> "titles", status |-> "OperationalError"]
    ELSE [op     |-> "titles",
          status |-> "ok",
          items  |-> Limit(SelectSeq(Val(store.movies), LAMBDA m :
                                Like(m.title, <<"%">> \o Strip(query) \o <<"%">>)),
                           limit)]

\* GET /health
health == [op |-> "health", status |-> "ok"]

(***************************************************************************)
(* Scripts/build_db.py: main                                               *)
(***************************************************************************)
\* movies[["movieId", "title", "genres"]].drop_duplicates("movieId")
DropDuplicateIds(movies) ==
    Pick(movies, {i \in 1..Len(movies) :
                    \A j \in 1..(i - 1) : movies[j].movieId # movies[i].movieId})

MergedRow(s, title, genres) ==
    [movieId         |-> s.movieId,
     rating_count    |-> s.rating_count,
     avg_rating      |-> s.avg_rating,
     weighted_rating |-> s.weighted_rating,
     title           |-> title,
     genres          |-> genres]

\* the metadata row of movieId id, movies holding each movieId at most once
MetaOf(movies, id) == movies[CHOOSE j \in 1..Len(movies) : movies[j].movieId = id]
HasMeta(movies, id) == \E j \in 1..Len(movies) : movies[j].movieId = id

\* merge(how="inner"): a stats row without metadata is dropped
merge_inner(stats, movies) ==
    LET kept == Pick(stats, {k \in 1..Len(stats) : HasMeta(movies, stats[k].movieId)})
    IN  [k \in 1..Len(kept) |->
            MergedRow(kept[k], MetaOf(movies, kept[k].movieId).title,
                      MetaOf(movies, kept[k].movieId).genres)]

\* stats.merge(movies, on="movieId", how="left")
merge(stats, movies) ==
    [k \in 1..Len(stats) |->
        IF HasMeta(movies, stats[k].movieId)
        THEN MergedRow(stats[k], MetaOf(movies, stats[k].movieId).title,
                       MetaOf(movies, stats[k].movieId).genres)
        ELSE MergedRow(stats[k], None, None)]

\* lines 82-88 of main: clean, aggregate, score, merge
Pipeline(ratings, movies) ==
    merge(bayesian_weighted(build_movie_stats(clean_ratings(ratings)), DefaultM),
          DropDuplicateIds(movies))

\* merged[["movieId", "title", "genres"]]
MoviesCols(frame) ==
    [k \in 1..Len(frame) |->
        [movieId |-> frame[k].movieId, title |-> frame[k].title, genres |-> frame[k].genres]]

\* merged[["movieId", "rating_count", "avg_rating", "weighted_rating"]]
ScoresCols(frame) ==
    [k \in 1..Len(frame) |->
        [movieId         |-> frame[k].movieId,
         rating_count    |-> frame[k].rating_count,
         avg_rating      |-> frame[k].avg_rating,
         weighted_rating |-> frame[k].weighted_rating]]

\* to_sql(..., if_exists="append"): the rows are added to the table that is there
to_sql_append(table, rows) ==
    IF IsNull(table) THEN Some(rows) ELSE Some(Val(table) \o rows)

\* to_sql(..., if_exists="replace"): the table is dropped and created from rows
to_sql(table, rows) == Some(rows)

\* conn.executescript(schema.sql), the script that creates the table structure:
\* a table that is missing is created empty, a table that exists is kept
SchemaScript(store) ==
    [store EXCEPT !.movies = IF IsNull(@) THEN Some(<<>>) ELSE @,
                  !.movie_scores = IF IsNull(@) THEN Some(<<>>) ELSE @]

(***************************************************************************)
(* The store, the batch run and the service                                *)
(***************************************************************************)
File(rows) == [exists |-> TRUE, columns |-> TRUE, rows |-> rows]
\* the file is not in data/
MissingFile == [exists |-> FALSE, columns |-> FALSE, rows |-> <<>>]
\* the file lacks a column main selects
BadColumns == [exists |-> TRUE, columns |-> FALSE, rows |-> <<>>]

Meta(id, title, genres) == [movieId |-> id, title |-> title, genres |-> genres]

Up == <<"U", "p">>
Heat == <<"H", "e", "a", "t">>
comedy == <<"c", "o", "m", "e", "d", "y">>
zen == <<"z", "e", "n">>

\* ratings.csv: two rated movies; one rated movie; nothing that survives cleaning;
\* absent; without the rating column
RatingsFiles ==
    { File(<<Rating(Some(1), Some(1), Some(10), Some(7)),
             Rating(Some(2), Some(1), Some(5), None),
             Rating(Some(1), Some(2), Some(1), Some(7))>>),
      File(<<Rating(Some(1), Some(1), Some(10), Some(7))>>),
      File(<<Rating(Some(2), Some(2), Some(11), None),
             Rating(None, None, None, None)>>),
      MissingFile,
      BadColumns }

\* movies.csv: metadata for a rated and for an unrated movie, none for movie 2;
\* absent
MoviesFiles ==
    { File(<<Meta(1, Some(Up), Some(Comedy)), Meta(3, Some(Heat), Some(Drama)),
             Meta(1, Some(Heat), None)>>),
      MissingFile }

BuildInputs == {[ratings |-> r, movies |-> m] : r \in RatingsFiles, m \in MoviesFiles}

Init ==
    /\ dataDir \in BOOLEAN
    /\ db = NoDb
    /\ pc = "idle"
    /\ input = [ratings |-> MissingFile, movies |-> MissingFile]
    /\ merged = <<>>
    /\ before = NoDb
    /\ outcome = "none"
    /\ built = FALSE
    /\ resp = NoCall
    /\ arg = NoCall

\* main, lines 66-88: mkdir, the file checks, read_csv, the pipeline, the merge
BuildLoad(inputs) ==
    /\ pc = "idle"
    /\ \E i \in inputs :
        /\ input' = i
        /\ IF ~i.ratings.exists \/ ~i.movies.exists
           THEN /\ outcome' = "FileNotFoundError"
                /\ merged' = <<>>
                /\ pc' = "idle"
           ELSE IF ~i.ratings.columns \/ ~i.movies.columns
           THEN /\ outcome' = "KeyError"
                /\ merged' = <<>>
                /\ pc' = "idle"
           ELSE /\ outcome' = "running"
                /\ merged' = Pipeline(i.ratings.rows, i.movies.rows)
                /\ pc' = "connect"
    /\ dataDir' = TRUE
    /\ before' = db
    /\ UNCHANGED <<db, built, resp, arg>>

\* line 91: sqlite3.connect creates the file when it is not there
BuildConnect ==
    /\ pc = "connect"
    /\ db' = [db EXCEPT !.exists = TRUE]
    /\ pc' = "schema"
    /\ UNCHANGED <<dataDir, input, merged, before, outcome, built, resp, arg>>

\* line 94
BuildSchema ==
    /\ pc = "schema"
    /\ db' = SchemaScript(db)
    /\ pc' = "movies"
    /\ UNCHANGED <<dataDir, input, merged, before, outcome, built, resp, arg>>

\* line 97
BuildMovies ==
    /\ pc = "movies"
    /\ db' = [db EXCEPT !.movies = to_sql(@, MoviesCols(merged))]
    /\ pc' = "movie_scores"
    /\ UNCHANGED <<dataDir, input, merged, before, outcome, built, resp, arg>>

\* lines 98-100
BuildScores ==
    /\ pc = "movie_scores"
    /\ db' = [db EXCEPT !.movie_scores = to_sql(@, ScoresCols(merged))]
    /\ pc' = "sample"
    /\ UNCHANGED <<dataDir, input, merged, before, outcome, built, resp, arg>>

\* lines 102-117: the message, the top-5 sample (a read), close
BuildSample ==
    /\ pc = "sample"
    /\ pc' = "idle"
    /\ outcome' = "ok"
    /\ built' = TRUE
    /\ UNCHANGED <<dataDir, db, input, merged, before, resp, arg>>

\* a statement on the connection raises (sqlite3.Error: disk full, database
\* locked, a script that does not run); the finally clause closes the connection
BuildAbort ==
    /\ pc \in {"schema", "movies", "movie_scores"}
    /\ pc' = "idle"
    /\ outcome' = "OperationalError"
    /\ UNCHANGED <<dataDir, db, input, merged, before, built, resp, arg>>

TableNames(store) ==
    (IF IsNull(store.movie_scores) THEN <<>> ELSE <<"movie_scores">>)
    \o (IF IsNull(store.movies) THEN <<>> ELSE <<"movies">>)

\* Scripts/check_db.py: connect, list the tables, count their rows
check_db ==
    /\ IF dataDir
       THEN /\ db' = [db EXCEPT !.exists = TRUE]
            /\ resp' = [op |-> "check_db", status |-> "ok", tables |-> TableNames(db)]
       ELSE /\ db' = db
            /\ resp' = [op |-> "check_db", status |-> "OperationalError"]
    /\ arg' = [op |-> "check_db"]
    /\ UNCHANGED <<dataDir, pc, input, merged, before, outcome, built>>

\* what a request read: the store as it was and whether a run had completed
Call(op, params) == [op |-> op, params |-> params, store |-> db, built |-> built]

GetRecommendations(moods, ks, min_counts) ==
    /\ \E mood \in moods, k \in ks, min_count \in min_counts :
        /\ resp' \in recommendations(db, mood, k, min_count)
        /\ arg' = Call("recommendations", [mood |-> mood, k |-> k, min_count |-> min_count])
    /\ UNCHANGED <<dataDir, db, pc, input, merged, before, outcome, built>>

SearchTitles(queries, limits) ==
    /\ \E query \in queries, limit \in limits :
        /\ resp' = titles(db, query, limit)
        /\ arg' = Call("titles", [query |-> query, limit |-> limit])
    /\ UNCHANGED <<dataDir, db, pc, input, merged, before, outcome, built>>

GetHealth ==
    /\ resp' = health
    /\ arg' = [op |-> "health"]
    /\ UNCHANGED <<dataDir, db, pc, input, merged, before, outcome, built>>

Next ==
    \/ BuildLoad(BuildInputs)
    \/ BuildConnect
    \/ BuildSchema
    \/ BuildMovies
    \/ BuildScores
    \/ BuildSample
    \/ BuildAbort
    \/ check_db
    \/ GetRecommendations({fun, zen}, {20}, {1})
    \/ SearchTitles({<<>>}, {20})
    \/ GetHealth

Spec == Init /\ [][Next]_vars

(***************************************************************************)
(* Claims on the batch run and the store (Spec)                            *)
(***************************************************************************)
Ids(rows) == {rows[k].movieId : k \in 1..Len(rows)}
\* the movieIds with at least one rating that survives cleaning
StatsIds(i) == {Val(r.movieId) : r \in Range(clean_ratings(i.ratings.rows))}
\* the movieIds with a row in movies.csv
MetaIds(i) == Ids(i.movies.rows)

RunLoaded == outcome \in {"running", "ok", "OperationalError"}
RunSucceeded == pc = "idle" /\ outcome = "ok"
\* the store a complete run of the current input leaves
NewStore ==
    [exists |-> TRUE, movies |-> Some(MoviesCols(merged)),
     movie_scores |-> Some(ScoresCols(merged))]
Served == resp.op \in {"recommendations", "titles"}

\* C3: a batch run whose ratings all fall to cleaning fails at the scorer with
\* EmptyInputError and leaves the catalog store as it was.
C3_EmptyInputFails ==
    (RunLoaded /\ clean_ratings(input.ratings.rows) = <<>>) =>
        (outcome = "EmptyInputError" /\ db = before)

\* C4: a request served while a rebuild of an existing catalog runs reads either
\* the store as it was before the rebuild or the complete new catalog, never a
\* state in between.
C4_AtomicReplace ==
    (pc # "idle" /\ built /\ ~IsNull(before.movies) /\ ~IsNull(before.movie_scores)
        /\ Served /\ arg.store = db) =>
            (db = before \/ db = NewStore)

\* a step of the batch run that ends it with an error
RunFails ==
    /\ pc' = "idle"
    /\ outcome' \in {"FileNotFoundError", "KeyError", "OperationalError"}
    /\ <<pc, input, outcome, before>>' # <<pc, input, outcome, before>>

\* C5: when a batch run fails, at whatever step, the store is identical to the
\* store before the run started.
C5_AllOrNothing == [][RunFails => db' = before']_vars

\* C6: while no batch run has ever completed, GetRecommendations and SearchTitles
\* fail with the store-unavailable error of get_conn (FileNotFoundError).
C6_StoreUnavailable ==
    (Served /\ ~arg.built) => resp.status = "FileNotFoundError"

\* C7: after a successful batch run the two tables are a function of that run's
\* input alone, whatever the store held before: nothing of an earlier input
\* remains, and a second run on the same input changes nothing.
C7_RebuildIsPure ==
    RunSucceeded =>
        LET frame == Pipeline(input.ratings.rows, input.movies.rows)
        IN  db = [exists |-> TRUE, movies |-> Some(MoviesCols(frame)),
                  movie_scores |-> Some(ScoresCols(frame))]

\* a successful run over a store that held a movie the new input does not have
C7_Witness ==
    /\ RunSucceeded
    /\ ~IsNull(before.movies)
    /\ Ids(Val(before.movies)) \ Ids(Val(db.movies)) # {}

\* C8 as stated: the catalog of a successful build has an entry for every movieId
\* with statistics and for every movieId with metadata.
C8_EntryForStatsAndMeta ==
    RunSucceeded =>
        /\ StatsIds(input) \cup MetaIds(input) \subseteq Ids(Val(db.movies))
        /\ StatsIds(input) \cup MetaIds(input) \subseteq Ids(Val(db.movie_scores))

\* C8 amended: the catalog of a successful build has an entry for every movieId
\* with statistics and for no other movieId; a movie with statistics but no
\* metadata has null title and genres, and a movie with metadata but no clean
\* rating has no entry.  An entry with null title is returned by the
\* recommendations query without genre filter (when it passes min_count and the
\* limit does not cut the result) and is never returned by the title search.
C8_CatalogIsLeftJoin ==
    /\ RunSucceeded =>
        /\ Ids(Val(db.movies)) = StatsIds(input)
        /\ Ids(Val(db.movie_scores)) = StatsIds(input)
        /\ \A k \in 1..Len(Val(db.movies)) :
              Val(db.movies)[k].movieId \notin MetaIds(input) =>
                  IsNull(Val(db.movies)[k].title) /\ IsNull(Val(db.movies)[k].genres)
    /\ (resp.op = "recommendations" /\ resp.status = "ok" /\ resp.genres_filter = <<>>
            /\ Len(resp.items) < resp.k) =>
        \A s \in Range(Val(arg.store.movie_scores)), m \in Range(Val(arg.store.movies)) :
            (m.movieId = s.movieId /\ s.rating_count >= resp.min_count) =>
                Entry(s, m) \in Range(resp.items)
    /\ (resp.op = "titles" /\ resp.status = "ok") =>
        \A k \in 1..Len(resp.items) : ~IsNull(resp.items[k].title)

\* a built catalog with a stats-only entry, the input's metadata-only movie left
\* out, and a recommendations response on it that carries the null-title entry
C8_Witness ==
    /\ RunSucceeded
    /\ MetaIds(input) \ StatsIds(input) # {}
    /\ StatsIds(input) \ MetaIds(input) # {}
    /\ resp.op = "recommendations"
    /\ resp.status = "ok"
    /\ arg.store = db
    /\ \E k \in 1..Len(resp.items) : IsNull(resp.items[k].title)

(***************************************************************************)
(* The service on a built catalog                                          *)
(***************************************************************************)
\* longest ratings.csv behind a served catalog
MaxRatings == 3

ServeRows ==
    { Rating(Some(1), Some(1), Some(10), Some(7)),
      Rating(Some(1), Some(2), Some(10), Some(7)),
      Rating(Some(2), Some(2), Some(1), None),
      Rating(Some(1), Some(3), Some(5), Some(7)) }

ServeMovies ==
    { <<Meta(1, Some(Up), Some(Comedy)), Meta(2, Some(Heat), Some(comedy))>>,
      <<Meta(1, Some(Up), Some(Drama \o <<"|">> \o Romance)), Meta(2, Some(Heat), Some(Comedy)),
        Meta(3, None, Some(Action))>> }

ServeInputs ==
    {[ratings |-> File(r), movies |-> File(m)] :
        r \in SeqsUpTo(ServeRows, MaxRatings), m \in ServeMovies}

\* a first batch run on input i, run to its end
BuiltStore(i) ==
    LET frame == Pipeline(i.ratings.rows, i.movies.rows)
    IN  [exists |-> TRUE, movies |-> to_sql(None, MoviesCols(frame)),
         movie_scores |-> to_sql(None, ScoresCols(frame))]

InitServe ==
    /\ dataDir = TRUE
    /\ input \in ServeInputs
    /\ db = BuiltStore(input)
    /\ merged = Pipeline(input.ratings.rows, input.movies.rows)
    /\ pc = "idle"
    /\ before = NoDb
    /\ outcome = "ok"
    /\ built = TRUE
    /\ resp = NoCall
    /\ arg = NoCall

\* the handlers keep nothing between requests and the catalog stays as built, so
\* one request per behaviour reaches every response
Fresh == arg.op = "none"

ServeRecommendations ==
    Fresh /\ GetRecommendations({fun, <<"F", "u", "n", " ">>, calm, zen},
                                {-1, 0, 1, 2, 20}, {0, 1, 2, 50})

ServeTitles ==
    Fresh /\ SearchTitles({<<>>, <<" ", "u", "P">>, <<"_", "e">>}, {-1, 0, 1, 20})

ServeHealth == Fresh /\ GetHealth

NextServe == ServeRecommendations \/ ServeTitles \/ ServeHealth

SpecServe == InitServe /\ [][NextServe]_vars

\* the rows of the join of the two tables of a store
JoinedEntries(store) ==
    {Entry(p[1], p[2]) :
        p \in {q \in Range(Val(store.movie_scores)) \X Range(Val(store.movies)) :
                    q[1].movieId = q[2].movieId}}

MoodOf(mood) == Strip(Lower(mood))

\* eligible as the claim states it: the tag occurs in genres character for character
EligibleExact(e, mood, min_count) ==
    /\ e.rating_count >= min_count
    /\ \/ MoodOf(mood) \notin MoodKeys
       \/ \E tag \in Range(MOOD_TO_GENRES(MoodOf(mood))) :
              ~IsNull(e.genres) /\ Contains(Val(e.genres), tag)

\* eligible with ASCII letters compared without regard to case
EligibleNoCase(e, mood, min_count) ==
    /\ e.rating_count >= min_count
    /\ \/ MoodOf(mood) \notin MoodKeys
       \/ \E tag \in Range(MOOD_TO_GENRES(MoodOf(mood))) :
              ~IsNull(e.genres) /\ Contains(Lower(Val(e.genres)), Lower(tag))

\* items is a top-k selection of the set E by weighted_rating
TopK(items, E, k) ==
    /\ \A i \in 1..Len(items) : items[i] \in E
    /\ \A i, j \in 1..Len(items) : i < j => items[i] # items[j]
    /\ \A i \in 1..(Len(items) - 1) :
          FLeq(items[i + 1].weighted_rating, items[i].weighted_rating)
    /\ Len(items) = Min(k, Cardinality(E))
    /\ \A e \in E \ Range(items) : \A i \in 1..Len(items) :
          FLeq(e.weighted_rating, items[i].weighted_rating)

Recommended == resp.op = "recommendations" /\ resp.status = "ok"

\* C1 as stated: for k >= 0 the items are a top-k selection of the entries with
\* ratingCount >= minCount whose genres contain a mapped tag as a substring (all
\* entries with ratingCount >= minCount when the mood is not in the table).
C1_TopKOfEligibleExact ==
    (Recommended /\ arg.params.k >= 0) =>
        TopK(resp.items,
             {e \in JoinedEntries(arg.store) :
                  EligibleExact(e, arg.params.mood, arg.params.min_count)},
             arg.params.k)

\* C1 amended: the same, the genre tag being looked for in genres without regard
\* to the case of ASCII letters (SQLite's LIKE).
C1_TopKOfEligibleNoCase ==
    (Recommended /\ arg.params.k >= 0) =>
        TopK(resp.items,
             {e \in JoinedEntries(arg.store) :
                  EligibleNoCase(e, arg.params.mood, arg.params.min_count)},
             arg.params.k)

\* a genre-filtered response cut by k: k >= 1 items, an eligible entry left out
C1_Witness ==
    /\ Recommended
    /\ resp.genres_filter # <<>>
    /\ arg.params.k >= 1
    /\ Len(resp.items) = arg.params.k
    /\ \E e \in JoinedEntries(arg.store) :
          /\ EligibleNoCase(e, arg.params.mood, arg.params.min_count)
          /\ e \notin Range(resp.items)

\* C10: the items of a recommendations response are never more than k.
C10_AtMostK == Recommended => Len(resp.items) <= arg.params.k

====
